---- MODULE Spec2Model ----
(***************************************************************************)
(* The Datadog grok rule compiler of lib/datadog/grok/src/                 *)
(* parse_grok_rules.rs as a state machine.                                 *)
(*                                                                         *)
(* parse_grok_rules is a pure function of (patterns, aliases) and of the   *)
(* process-wide builtin table PATTERNS.  Its recursion                     *)
(*   parse_pattern -> parse_grok_rule -> resolve_grok_pattern              *)
(*                 -> parse_alias / append_grok_pattern -> parse_grok_rule *)
(* is unfolded into steps: `frames` is the call stack of parse_grok_rule   *)
(* activations, one step handles one iteration of its `for` loop (Expand)  *)
(* or its tail and return (Return).  Text is modelled by TLA+ strings,     *)
(* character by character.                                                 *)
(*                                                                         *)
(* ScanningRule::scan of src/transforms/datadog_sensitive_data_scanner.rs  *)
(* is a second state machine (SpecScan) over the variables event,          *)
(* scanning_rule, lookups, inserted_tags and pc; each machine leaves the   *)
(* variables of the other alone.                                           *)
(***************************************************************************)
EXTENDS Integers, Sequences, FiniteSets, TLC

VARIABLES
    patterns,     \* parse_grok_rules argument: the ordered list of pattern strings
    aliases,      \* parse_grok_rules argument: alias name -> definition text
    PATTERNS,     \* the builtin pattern library loaded by initialize_grok
    idx,          \* number of input patterns the iterator has consumed
    rules,        \* the Vec<GrokRule> collected so far
    status,       \* "idle" | "run" | "done" | "overflow" | "panic"
    attempt,      \* "pattern": first parse_pattern call, "sentinel": the replacement
    ctx,          \* the GrokRuleParseContext of the running parse_pattern call
    frames,       \* call stack of parse_grok_rule activations, innermost last
    reg,          \* history: the fields registered by the running call, in order
    outcomes,     \* history: per non-empty pattern, the Result of its first attempt
    event,        \* ScanningRule::scan argument: the Event being scanned
    scanning_rule, \* the ScanningRule (self) of the running ScanningRule::scan
    lookups,      \* the paths ScanningRule::scan has still to visit
    inserted_tags,\* the local flag of ScanningRule::scan
    pc,           \* "off" | "enter" | "loop" | "done" | "panic"
    event0        \* history: the event as it was handed to ScanningRule::scan

\* the state of the grok rule compiler
grok_vars == <<patterns, aliases, PATTERNS, idx, rules, status, attempt, ctx,
               frames, reg, outcomes>>

\* the state of the sensitive data scanner
scan_vars == <<event, scanning_rule, lookups, inserted_tags, pc, event0>>

vars == <<patterns, aliases, PATTERNS, idx, rules, status, attempt, ctx, frames,
          reg, outcomes, event, scanning_rule, lookups, inserted_tags, pc, event0>>

-----------------------------------------------------------------------------
(* Bounds of the model *)

\* longest batch of patterns drawn from BatchCorpus
MaxBatch == 3
\* number of nested parse_grok_rule activations the call stack can hold
MaxDepth == 8

-----------------------------------------------------------------------------
(* Text helpers *)

Char(s, i) == SubSeq(s, i, i)

Slice(s, from, to) == IF from > to THEN "" ELSE SubSeq(s, from, to)

Range(f) == {f[i] : i \in DOMAIN f}

\* the least element of a non-empty set of integers
Min(S) == CHOOSE x \in S : \A y \in S : x <= y

\* first index >= i at which character c occurs in s, 0 if none
IndexOf(s, c, i) ==
    LET hits == {k \in i..Len(s) : Char(s, k) = c}
    IN  IF hits = {} THEN 0 ELSE Min(hits)

RECURSIVE Replace(_, _, _)
\* str::replace: every non-overlapping occurrence, left to right
Replace(s, from, to) ==
    LET n == Len(from)
        hits == {i \in 1..(Len(s) - n + 1) : SubSeq(s, i, i + n - 1) = from}
    IN  IF hits = {} THEN s
        ELSE Slice(s, 1, Min(hits) - 1) \o to
                 \o Replace(Slice(s, Min(hits) + n, Len(s)), from, to)

-----------------------------------------------------------------------------
(* Token Scanner: GROK_PATTERN_RE and its find_iter *)

\* mutant: the string ends at the first quote, escaped or not
QuoteEnd_any_quote(s, k) ==
    LET hits == {i \in k..Len(s) : Char(s, i) = "\""}
    IN  IF hits = {} THEN 0 ELSE Min(hits)

\* (?:\\"|[^"])*(?<!\\)" from k: the index of the closing quote, the first
\* quote not preceded by a backslash; 0 if the string is never closed
QuoteEnd(s, k) ==
    LET hits == {i \in k..Len(s) : Char(s, i) = "\"" /\ Char(s, i - 1) # "\\"}
    IN  IF hits = {} THEN 0 ELSE Min(hits)

RECURSIVE SpanEnd(_, _, _)
\* (?:[^"\}]|(?<!\\)"...")+\} from j: the index of the closing brace, 0 if
\* the match fails; some = the group has matched at least once.  Characters
\* other than a quote and a brace are consumed one by one by [^"\}].
SpanEnd(s, j, some) ==
    LET hits == {i \in j..Len(s) : Char(s, i) \in {"}", "\""}}
        i == Min(hits)
    IN  IF hits = {} THEN 0
        ELSE IF Char(s, i) = "}" THEN (IF some \/ i > j THEN i ELSE 0)
        ELSE IF Char(s, i - 1) = "\\" THEN 0
        ELSE LET q == QuoteEnd(s, i + 1)
             IN  IF q = 0 THEN 0 ELSE SpanEnd(s, q + 1, TRUE)

\* GROK_PATTERN_RE anchored at i: index of the last character matched, or 0
MatchAt(s, i) ==
    IF i + 1 <= Len(s) /\ Char(s, i) = "%" /\ Char(s, i + 1) = "{"
    THEN SpanEnd(s, i + 2, FALSE)
    ELSE 0

\* the next match of find_iter at or after i: <<start, end>>, <<0, 0>> if none
FindFrom(s, i) ==
    LET hits == {k \in i..Len(s) : MatchAt(s, k) # 0}
    IN  IF hits = {} THEN <<0, 0>> ELSE <<Min(hits), MatchAt(s, Min(hits))>>

-----------------------------------------------------------------------------
(* Placeholder Parser (parse_grok_pattern, a collaborator):                *)
(*   %{MATCHER[(args)][:PATH[:FILTER[(args)]]]}                            *)

\* position i of s lies inside a double-quoted string
InQuote(s, i) ==
    Cardinality({j \in 1..(i - 1) :
                    Char(s, j) = "\"" /\ (j = 1 \/ Char(s, j - 1) # "\\")}) % 2 = 1

\* s split at the separators that stand outside double-quoted strings
Split(s, sep) ==
    LET cuts == {i \in 1..Len(s) : Char(s, i) = sep /\ ~InQuote(s, i)}
        cut(n) == IF n = 0 THEN 0
                  ELSE IF n > Cardinality(cuts) THEN Len(s) + 1
                  ELSE CHOOSE c \in cuts : Cardinality({d \in cuts : d < c}) = n - 1
    IN  [n \in 1..(Cardinality(cuts) + 1) |-> Slice(s, cut(n - 1) + 1, cut(n) - 1)]

\* characters that cannot occur in a matcher, filter or path identifier
NotIdent == {"(", ")", "\"", ",", " ", "%", "{", "}", ":", "\\"}

ValidName(n) == n # "" /\ \A i \in 1..Len(n) : Char(n, i) \notin NotIdent

Digits == {"0", "1", "2", "3", "4", "5", "6", "7", "8", "9"}

\* a string literal's value: \" stands for a quote
Unescape(s) == Replace(s, "\\\"", "\"")

\* one argument: a quoted string (Value::Bytes) or an integer literal
ParseArg(a) ==
    IF Len(a) >= 2 /\ Char(a, 1) = "\"" /\ Char(a, Len(a)) = "\""
    THEN [ok |-> TRUE, str |-> TRUE, val |-> Unescape(Slice(a, 2, Len(a) - 1))]
    ELSE [ok |-> a # "" /\ \A i \in 1..Len(a) : Char(a, i) \in Digits,
          str |-> FALSE, val |-> a]

\* name or name(arg, ...): has_args is Option::is_some of the argument list
ParseFunction(seg) ==
    LET p == IndexOf(seg, "(", 1)
    IN  IF p = 0
        THEN [ok |-> ValidName(seg), name |-> seg, has_args |-> FALSE, args |-> <<>>]
        ELSE LET inner == Slice(seg, p + 1, Len(seg) - 1)
                 parts == IF inner = "" THEN <<>> ELSE Split(inner, ",")
                 parsed == [i \in DOMAIN parts |-> ParseArg(parts[i])]
             IN  [ok |-> /\ ValidName(Slice(seg, 1, p - 1))
                         /\ Char(seg, Len(seg)) = ")"
                         /\ \A i \in DOMAIN parsed : parsed[i].ok,
                  name |-> Slice(seg, 1, p - 1),
                  has_args |-> TRUE,
                  args |-> [i \in DOMAIN parsed |->
                               [str |-> parsed[i].str, val |-> parsed[i].val]]]

NoFunction == [name |-> "", has_args |-> FALSE, args |-> <<>>]

\* the GrokPattern of one placeholder span, or ok = FALSE for a parse error
parse_grok_pattern(text) ==
    LET segs == Split(Slice(text, 3, Len(text) - 1), ":")
        fn == ParseFunction(segs[1])
        flt == IF Len(segs) >= 3 THEN ParseFunction(segs[3])
               ELSE [ok |-> TRUE] @@ NoFunction
    IN  [ok |-> /\ Len(segs) <= 3
                /\ fn.ok
                /\ Len(segs) >= 2 => ValidName(segs[2])
                /\ flt.ok,
         text |-> text,
         name |-> fn.name,
         has_args |-> fn.has_args,
         args |-> fn.args,
         has_dest |-> Len(segs) >= 2,
         path |-> IF Len(segs) >= 2 THEN segs[2] ELSE "",
         has_filter |-> Len(segs) >= 3,
         filter |-> [name |-> flt.name, has_args |-> flt.has_args, args |-> flt.args]]

-----------------------------------------------------------------------------
(* Collaborators: filter construction, the date translator, the regex engine *)

Ok == [kind |-> "Ok", arg |-> ""]
InvalidGrokExpression(text) == [kind |-> "InvalidGrokExpression", arg |-> text]
InvalidFunctionArguments(name) == [kind |-> "InvalidFunctionArguments", arg |-> name]
UnknownFilter(name) == [kind |-> "UnknownFilter", arg |-> name]
CircularDependencyInAliasDefinition(name) ==
    [kind |-> "CircularDependencyInAliasDefinition", arg |-> name]

\* the filter names GrokFilter::try_from implements
KnownFilters ==
    {"integer", "integerExt", "number", "numberExt", "nullIf", "scale", "lowercase"}

\* GrokFilter::try_from(&ast::Function): the filter object, or UnknownFilter
GrokFilter_try_from(f) ==
    IF f.name \in KnownFilters
    THEN [err |-> Ok, val |-> [kind |-> f.name, args |-> f.args]]
    ELSE [err |-> UnknownFilter(f.name), val |-> [kind |-> "", args |-> <<>>]]

\* the filters a matcher implies: GrokFilter::Integer, IntegerExt, Number, NumberExt
ImplicitFilter(name) == [kind |-> name, args |-> <<>>]

\* date::time_format_to_regex and date::convert_time_format on the formats
\* they know: the regex with the timezone captured, the one without, the
\* strptime format, and whether the format carries a timezone
DateFormats ==
    [f \in {"yyyy-MM-dd", "HH:mmZ"} |->
        IF f = "yyyy-MM-dd"
        THEN [tz_regex |-> "\\d{4}-\\d{2}-\\d{2}", regex |-> "\\d{4}-\\d{2}-\\d{2}",
              strp |-> "%Y-%m-%d", with_tz |-> FALSE]
        ELSE [tz_regex |-> "\\d{2}:\\d{2}(?P<tz>[+-]\\d{4})",
              regex |-> "\\d{2}:\\d{2}[+-]\\d{4}",
              strp |-> "%H:%M%z", with_tz |-> TRUE]]

time_format_to_regex(format, with_tz_capture) ==
    IF format \in DOMAIN DateFormats
    THEN [ok |-> TRUE,
          regex |-> IF with_tz_capture THEN DateFormats[format].tz_regex
                    ELSE DateFormats[format].regex,
          tz_captured |-> with_tz_capture /\ DateFormats[format].with_tz,
          with_tz |-> DateFormats[format].with_tz]
    ELSE [ok |-> FALSE, regex |-> "", tz_captured |-> FALSE, with_tz |-> FALSE]

convert_time_format(format) ==
    IF format \in DOMAIN DateFormats
    THEN [ok |-> TRUE, val |-> DateFormats[format].strp]
    ELSE [ok |-> FALSE, val |-> ""]

\* date::parse_timezone: the names it recognizes
parse_timezone(tz) == tz \in {"UTC", "America/New_York"}

\* character i of s follows an odd number of backslashes
Escaped(s, i) ==
    LET others == {j \in 1..(i - 1) : Char(s, j) # "\\"}
        last == IF others = {} THEN 0
                ELSE CHOOSE j \in others : \A k \in others : k <= j
    IN  (i - 1 - last) % 2 = 1

\* position i of s lies inside a character class [...]
InClass(s, i) ==
    \E j \in 1..(i - 1) :
        /\ Char(s, j) = "[" /\ ~Escaped(s, j)
        /\ \A k \in (j + 1)..(i - 1) : ~(Char(s, k) = "]" /\ ~Escaped(s, k))

\* Regex::new(text).is_ok(): the engine rejects a group that is not opened
\* or not closed, an open character class and a trailing backslash
RegexCompiles(text) ==
    LET parens == {i \in 1..Len(text) :
                      /\ Char(text, i) \in {"(", ")"}
                      /\ ~Escaped(text, i) /\ ~InClass(text, i)}
        opened(p) == Cardinality({q \in parens : q <= p /\ Char(text, q) = "("})
        closed(p) == Cardinality({q \in parens : q <= p /\ Char(text, q) = ")"})
    IN  /\ \A p \in parens : opened(p) >= closed(p)
        /\ opened(Len(text)) = closed(Len(text))
        /\ ~InClass(text, Len(text) + 1)
        /\ ~Escaped(text, Len(text) + 1)

-----------------------------------------------------------------------------
(* impl GrokRuleParseContext *)

append_regex(c, regex) == [c EXCEPT !.regex = @ \o regex]

\* mutant: the field is stored under its path, not under its capture name
register_grok_field_by_path(c, grok_name, field) ==
    [c EXCEPT !.fields = (field.lookup :> field) @@ @]

\* HashMap::insert: a later entry under the same key replaces the earlier one
register_grok_field(c, grok_name, field) ==
    [c EXCEPT !.fields = (grok_name :> field) @@ @]

\* mutant: the filter is pushed at the end of the chain
register_filter_push(c, grok_name, filter) ==
    IF grok_name \in DOMAIN c.fields
    THEN [c EXCEPT !.fields[grok_name].filters = Append(@, filter)]
    ELSE c

\* entry(..).and_modify(|v| v.filters.insert(0, filter)): no entry, no effect
register_filter(c, grok_name, filter) ==
    IF grok_name \in DOMAIN c.fields
    THEN [c EXCEPT !.fields[grok_name].filters = <<filter>> \o @]
    ELSE c

initialize_grok == PATTERNS

\* mutant: one context shared by all the patterns of a batch
GrokRuleParseContext_shared(al) ==
    [ctx EXCEPT !.regex = "", !.alias_stack = <<>>, !.aliases = al]

GrokRuleParseContext_new(al) ==
    [regex |-> "", fields |-> <<>>, aliases |-> al, alias_stack |-> <<>>,
     grok |-> initialize_grok]

\* mutant: names numbered by the depth of alias nesting
generate_name_by_depth(c) == "grok" \o ToString(Len(c.alias_stack))

generate_grok_compliant_name(c) ==
    "grok" \o ToString(Cardinality(DOMAIN c.fields))

-----------------------------------------------------------------------------
(* The result of one call: the context, the error (Ok if none), the nested *)
(* parse_grok_rule activation it enters (kind "none" if it enters none),   *)
(* and, as history, the capture names it registered.                       *)

NoCall == [kind |-> "none", rule |-> "", regex_i |-> 1, close |-> FALSE]

Call(kind, rule, close) ==
    [kind |-> kind, rule |-> rule, regex_i |-> 1, close |-> close]

Res(c, err, call) == [ctx |-> c, err |-> err, call |-> call]

\* mutant: a name the library does not define is an error
append_grok_pattern_strict(c, name) ==
    IF name \in DOMAIN c.grok
    THEN Res(c, Ok, Call("builtin", c.grok[name], TRUE))
    ELSE Res(c, InvalidGrokExpression(name), NoCall)

\* append_grok_pattern: a builtin definition is compiled as a nested rule,
\* an unknown name appends the literal TODO
append_grok_pattern(c, name) ==
    IF name \in DOMAIN c.grok
    THEN Res(c, Ok, Call("builtin", c.grok[name], TRUE))
    ELSE Res(append_regex(c, "TODO"), Ok, NoCall)

\* mutant: the error names the alias that is repeated
parse_alias_naming_repeated(name, definition, c, close) ==
    IF \E i \in DOMAIN c.alias_stack : c.alias_stack[i] = name
    THEN Res(c, CircularDependencyInAliasDefinition(name), NoCall)
    ELSE Res([c EXCEPT !.alias_stack = Append(@, name)], Ok,
             Call("alias", definition, close))

\* mutant: only the alias being expanded right now is compared
parse_alias_top_only(name, definition, c, close) ==
    IF c.alias_stack # <<>> /\ c.alias_stack[Len(c.alias_stack)] = name
    THEN Res(c, CircularDependencyInAliasDefinition(c.alias_stack[1]), NoCall)
    ELSE Res([c EXCEPT !.alias_stack = Append(@, name)], Ok,
             Call("alias", definition, close))

\* parse_alias up to its call of parse_grok_rule; the pop of the stack and
\* the caller's closing parenthesis are in Return
parse_alias(name, definition, c, close) ==
    IF \E i \in DOMAIN c.alias_stack : c.alias_stack[i] = name
    THEN Res(c, CircularDependencyInAliasDefinition(c.alias_stack[1]), NoCall)
    ELSE Res([c EXCEPT !.alias_stack = Append(@, name)], Ok,
             Call("alias", definition, close))

\* mutant: the timezone argument is stored without being validated
date_match_function_any_tz(has_alias, grok_alias, pattern, c) ==
    LET args == pattern.args
        bad == Res(c, InvalidFunctionArguments(pattern.name), NoCall)
    IN  IF pattern.has_args /\ Len(args) > 0 /\ Len(args) <= 2
        THEN IF args[1].str
             THEN LET format == args[1].val
                      result == time_format_to_regex(format, TRUE)
                      strp_format == convert_time_format(format)
                      has_tz == Len(args) = 2 /\ args[2].str
                      filter ==
                          [kind |-> "date",
                           original_format |-> format,
                           strp_format |-> strp_format.val,
                           has_regex_with_tz |-> result.tz_captured,
                           regex_with_tz |->
                               IF result.tz_captured THEN result.regex ELSE "",
                           has_target_tz |-> has_tz,
                           target_tz |-> IF has_tz THEN args[2].val ELSE "",
                           tz_aware |-> result.with_tz]
                      result2 == time_format_to_regex(format, FALSE)
                  IN  IF ~result.ok THEN bad
                      ELSE IF result.tz_captured /\ ~RegexCompiles(result.regex)
                           THEN bad
                      ELSE IF ~strp_format.ok THEN bad
                      ELSE IF ~result2.ok THEN bad
                      ELSE Res(append_regex(
                                   IF has_alias
                                   THEN register_filter(c, grok_alias, filter)
                                   ELSE c,
                                   result2.regex),
                               Ok, NoCall)
             ELSE bad
        ELSE bad

\* the "date" arm of resolves_match_function: the format, the optional
\* target timezone, the date filter and the regex of the format
date_match_function(has_alias, grok_alias, pattern, c) ==
    LET args == pattern.args
        bad == Res(c, InvalidFunctionArguments(pattern.name), NoCall)
    IN  IF pattern.has_args /\ Len(args) > 0 /\ Len(args) <= 2
        THEN IF args[1].str
             THEN LET format == args[1].val
                      result == time_format_to_regex(format, TRUE)
                      strp_format == convert_time_format(format)
                      has_tz == Len(args) = 2 /\ args[2].str
                      filter ==
                          [kind |-> "date",
                           original_format |-> format,
                           strp_format |-> strp_format.val,
                           has_regex_with_tz |-> result.tz_captured,
                           regex_with_tz |->
                               IF result.tz_captured THEN result.regex ELSE "",
                           has_target_tz |-> has_tz,
                           target_tz |-> IF has_tz THEN args[2].val ELSE "",
                           tz_aware |-> result.with_tz]
                      result2 == time_format_to_regex(format, FALSE)
                  IN  IF ~result.ok THEN bad
                      ELSE IF result.tz_captured /\ ~RegexCompiles(result.regex)
                           THEN bad
                      ELSE IF ~strp_format.ok THEN bad
                      ELSE IF has_tz /\ ~parse_timezone(args[2].val) THEN bad
                      ELSE IF ~result2.ok THEN bad
                      ELSE Res(append_regex(
                                   IF has_alias
                                   THEN register_filter(c, grok_alias, filter)
                                   ELSE c,
                                   result2.regex),
                               Ok, NoCall)
             ELSE bad
        ELSE bad

\* resolves_match_function: the regex fragment of a match function and the
\* filter it implies; has_alias is grok_alias.is_some()
resolves_match_function(has_alias, grok_alias, pattern, c) ==
    LET name == pattern.name
        args == pattern.args
        bad == Res(c, InvalidFunctionArguments(name), NoCall)
        typed(str_name) ==
            append_grok_pattern(
                IF has_alias THEN register_filter(c, grok_alias, ImplicitFilter(name))
                ELSE c,
                str_name)
    IN  CASE name = "regex" ->
               IF pattern.has_args /\ Len(args) > 0
               THEN IF args[1].str
                    THEN Res(append_regex(c, args[1].val), Ok, NoCall)
                    ELSE bad
               ELSE bad
          [] name = "integer" -> typed("integerStr")
          [] name = "integerExt" -> typed("integerExtStr")
          [] name = "number" -> typed("numberStr")
          [] name = "numberExt" -> typed("numberExtStr")
          [] name = "date" -> date_match_function(has_alias, grok_alias, pattern, c)
          [] OTHER -> append_grok_pattern(c, name)

\* after resolves_match_function: the error is propagated, a nested
\* activation is entered, or the closing parenthesis is appended at once
CloseGroup(r) ==
    IF r.err = Ok /\ r.call.kind = "none"
    THEN Res(append_regex(r.ctx, ")"), Ok, NoCall)
    ELSE r

\* mutant: the special matchers are recognized before the alias table is
\* consulted
resolve_grok_pattern_matchers_first(pattern, c) ==
    LET grok_alias == generate_grok_compliant_name(c)
        has_alias == pattern.has_dest
        filter == IF pattern.has_dest /\ pattern.has_filter
                  THEN GrokFilter_try_from(pattern.filter)
                  ELSE [err |-> Ok, val |-> [kind |-> "", args |-> <<>>]]
        c1 == IF pattern.has_dest
              THEN register_grok_field(c, grok_alias,
                       [lookup |-> pattern.path,
                        filters |-> IF pattern.has_filter THEN <<filter.val>>
                                    ELSE <<>>])
              ELSE c
        match_name == pattern.name
        is_alias == /\ match_name \in DOMAIN c1.aliases
                    /\ match_name \notin {"regex", "date", "boolean", "integer",
                                          "integerExt", "number", "numberExt"}
        r == IF is_alias
             THEN IF has_alias
                  THEN parse_alias(match_name, c1.aliases[match_name],
                                   append_regex(c1, "(?P<" \o grok_alias \o ">"),
                                   TRUE)
                  ELSE parse_alias(match_name, c1.aliases[match_name], c1, FALSE)
             ELSE IF match_name \in {"regex", "date", "boolean"}
                  THEN CloseGroup(resolves_match_function(has_alias, grok_alias, pattern,
                           append_regex(c1, IF has_alias
                                            THEN "(?P<" \o grok_alias \o ">"
                                            ELSE "(?:")))
             ELSE CloseGroup(resolves_match_function(has_alias, grok_alias, pattern,
                      append_regex(
                          append_regex(c1, IF has_alias THEN "(?P<" \o grok_alias
                                           ELSE "(?:"),
                          ">")))
    IN  IF filter.err # Ok
        THEN [ctx |-> c, err |-> filter.err, call |-> NoCall, registered |-> <<>>]
        ELSE [ctx |-> r.ctx, err |-> r.err, call |-> r.call,
              registered |-> IF pattern.has_dest
                             THEN <<[name |-> grok_alias, pattern |-> pattern,
                                     is_alias |-> is_alias]>>
                             ELSE <<>>]

\* resolve_grok_pattern for one parsed placeholder; `registered` is history
resolve_grok_pattern(pattern, c) ==
    LET grok_alias == generate_grok_compliant_name(c)
        has_alias == pattern.has_dest
        filter == IF pattern.has_dest /\ pattern.has_filter
                  THEN GrokFilter_try_from(pattern.filter)
                  ELSE [err |-> Ok, val |-> [kind |-> "", args |-> <<>>]]
        c1 == IF pattern.has_dest
              THEN register_grok_field(c, grok_alias,
                       [lookup |-> pattern.path,
                        filters |-> IF pattern.has_filter THEN <<filter.val>>
                                    ELSE <<>>])
              ELSE c
        match_name == pattern.name
        r == IF match_name \in DOMAIN c1.aliases
             THEN IF has_alias
                  THEN parse_alias(match_name, c1.aliases[match_name],
                                   append_regex(c1, "(?P<" \o grok_alias \o ">"),
                                   TRUE)
                  ELSE parse_alias(match_name, c1.aliases[match_name], c1, FALSE)
             ELSE IF match_name \in {"regex", "date", "boolean"}
                  THEN CloseGroup(resolves_match_function(has_alias, grok_alias, pattern,
                           append_regex(c1, IF has_alias
                                            THEN "(?P<" \o grok_alias \o ">"
                                            ELSE "(?:")))
             ELSE CloseGroup(resolves_match_function(has_alias, grok_alias, pattern,
                      append_regex(
                          append_regex(c1, IF has_alias THEN "(?P<" \o grok_alias
                                           ELSE "(?:"),
                          ">")))
    IN  IF filter.err # Ok
        THEN [ctx |-> c, err |-> filter.err, call |-> NoCall, registered |-> <<>>]
        ELSE [ctx |-> r.ctx, err |-> r.err, call |-> r.call,
              registered |-> IF pattern.has_dest
                             THEN <<[name |-> grok_alias, pattern |-> pattern,
                                     is_alias |-> match_name \in DOMAIN c1.aliases]>>
                             ELSE <<>>]

\* mutant: the end anchor is left out
parse_pattern_open_ended(c) ==
    LET pattern == Replace(Replace("\\A" \o c.regex, "(?s)", "(?m)"),
                           "(?-s)", "(?-m)")
    IN  IF RegexCompiles(pattern)
        THEN [err |-> Ok, rule |-> [pattern |-> pattern, fields |-> c.fields]]
        ELSE [err |-> InvalidGrokExpression(pattern),
              rule |-> [pattern |-> "", fields |-> <<>>]]

\* mutant: only the modifier that switches the mode on is translated
parse_pattern_one_modifier(c) ==
    LET pattern == Replace("\\A" \o c.regex \o "\\z", "(?s)", "(?m)")
    IN  IF RegexCompiles(pattern)
        THEN [err |-> Ok, rule |-> [pattern |-> pattern, fields |-> c.fields]]
        ELSE [err |-> InvalidGrokExpression(pattern),
              rule |-> [pattern |-> "", fields |-> <<>>]]

\* parse_pattern after parse_grok_rule has returned Ok: anchors, the
\* (?s) -> (?m) translation, and the compilation of the regex
parse_pattern(c) ==
    LET pattern == Replace(Replace("\\A" \o c.regex \o "\\z", "(?s)", "(?m)"),
                           "(?-s)", "(?-m)")
    IN  IF RegexCompiles(pattern)
        THEN [err |-> Ok, rule |-> [pattern |-> pattern, fields |-> c.fields]]
        ELSE [err |-> InvalidGrokExpression(pattern),
              rule |-> [pattern |-> "", fields |-> <<>>]]

\* the text parse_grok_rules compiles in place of a pattern that failed
Sentinel == "failed pattern replacement"

\* the GrokRule the sentinel compiles to
SentinelRule == [pattern |-> "\\Afailed pattern replacement\\z", fields |-> <<>>]

-----------------------------------------------------------------------------
(* Inputs *)

\* the builtin library: the definitions the special matchers name, and
\* named patterns, one of which refers to another and one of which uses a
\* dialect modifier
Builtins ==
    [n \in {"integerStr", "integerExtStr", "numberStr", "numberExtStr",
            "word", "greedy", "hostname"} |->
        CASE n = "integerStr" -> "[+-]?\\d+"
          [] n = "integerExtStr" -> "[+-]?\\d+(?:e\\d+)?"
          [] n = "numberStr" -> "[+-]?\\d+(?:\\.\\d+)?"
          [] n = "numberExtStr" -> "[+-]?\\d+(?:\\.\\d+)?(?:e\\d+)?"
          [] n = "word" -> "\\w+"
          [] n = "greedy" -> "(?s).*"
          [] OTHER -> "%{word}(?:\\.%{word})*"]

\* a library in which builtin definitions refer to each other in a cycle
CyclicBuiltins ==
    [n \in {"ping", "pong", "self"} |->
        CASE n = "ping" -> "<%{pong}"
          [] n = "pong" -> "%{ping}>"
          [] OTHER -> "%{self:again}"] @@ Builtins

AliasTables ==
    { <<>>,
      \* two aliases referring to each other, and one referring to itself
      [n \in {"a", "b", "c"} |->
          CASE n = "a" -> "%{b}" [] n = "b" -> "%{a}" [] OTHER -> "-%{c:again}"],
      \* a cycle that does not pass through its entry point a
      [n \in {"a", "b", "c"} |->
          CASE n = "a" -> "%{b}" [] n = "b" -> "%{c}" [] OTHER -> "%{b}"],
      \* aliases without cycles: an alternation, nested fields, a shared alias
      [n \in {"a", "b", "c"} |->
          CASE n = "a" -> "x|y" [] n = "b" -> "%{integer:n} %{a:w}"
            [] OTHER -> "%{a}%{a}"],
      \* aliases under the names of a special matcher and of builtins: the
      \* alias word and the builtin hostname refer to each other
      [n \in {"integer", "regex", "word"} |->
          CASE n = "integer" -> "[0-9]+" [] n = "regex" -> "%{number:inner}"
            [] OTHER -> "%{hostname}"],
      \* aliases whose expansion fails at some depth (a placeholder the
      \* parser rejects, an unknown filter), and one with dialect modifiers
      [n \in {"d", "e", "f", "g", "word"} |->
          CASE n = "d" -> "(?s).*(?-s)" [] n = "e" -> "<%{:x}>"
            [] n = "f" -> "[%{integer:n:bogus}]" [] n = "g" -> "%{f:u}"
            [] OTHER -> "%{e}"] }

\* the patterns batches are built from
BatchCorpus ==
    {"", "lit|x", "%{b:f}=%{b}", "%{regex(\"(\"):r}"}

\* the patterns compiled alone
Corpus ==
    { "", "plain text", "a(?s).b(?-s)",
      "%{a}", "%{b:f}", "x%{c}y", "p%{a}q", "%{a:f:lowercase} and %{c:g}",
      "%{ping}", "%{self:s}",
      "%{integer:n:scale(10)}", "%{number:n:nullIf(\"-\")}",
      "%{integerExt:n:integer}", "%{numberExt:n:lowercase}",
      "%{date(\"yyyy-MM-dd\"):d:lowercase}", "%{date(\"HH:mmZ\",\"UTC\"):t}",
      "%{number}", "%{integer} %{word:w}", "%{hostname:h}",
      "%{nope:u}", "%{nope}", "%{boolean:b}",
      "%{regex(\"\\d+\"):r}", "%{regex(\"a|b\")}",
      "%{regex}", "%{regex()}", "%{regex(1)}", "%{regex:r}",
      "%{regex(\"a\",\"b\")}", "%{regex(\"a\",2):r}",
      "%{integer:n:bogus}", "%{:x}", "%{regex(\"(\")}",
      \* date arguments and timezones
      "%{date:d}", "%{date()}", "%{date(1):d}", "%{date(\"bogus\"):d}",
      "%{date(\"yyyy-MM-dd\",\"UTC\",\"x\"):d}", "%{date(\"yyyy-MM-dd\",5):d}",
      "%{date(\"yyyy-MM-dd\",\"America/New_York\"):d}",
      "%{date(\"yyyy-MM-dd\",\"Not/AZone\"):d}", "%{date(\"HH:mmZ\",\"Not/AZone\")}",
      \* unknown names, failures inside expansions, quoted arguments, modifiers
      "%{nope:u} then %{word:w}", "%{g}", "=%{e:x}", "%{d:all}",
      "%{word:field:nullIf(\"with \\\"escaped\\\" quotes\")}",
      "%{word:f:nullIf(\"a}b\")} %{word}",
      "%{regex(\"(?s).*\"):r}", "%{greedy:g}(?-s)" }

RECURSIVE SeqsUpTo(_, _)
\* the sequences over S of length at most n
SeqsUpTo(S, n) ==
    IF n = 0 THEN {<<>>}
    ELSE LET shorter == SeqsUpTo(S, n - 1)
         IN  shorter \cup {Append(q, x) : q \in shorter, x \in S}

Batches == SeqsUpTo(BatchCorpus, MaxBatch) \cup {<<p>> : p \in Corpus}

-----------------------------------------------------------------------------
(* The state machine *)

InitWith(libraries) ==
    /\ patterns \in Batches
    /\ aliases \in AliasTables
    /\ PATTERNS \in libraries
    /\ idx = 0
    /\ rules = <<>>
    /\ status = "idle"
    /\ attempt = "pattern"
    /\ ctx = [regex |-> "", fields |-> <<>>, aliases |-> aliases,
              alias_stack |-> <<>>, grok |-> PATTERNS]
    /\ frames = <<>>
    /\ reg = <<>>
    /\ outcomes = <<>>
    /\ event = [kind |-> "Log", fields |-> <<>>]
    /\ scanning_rule = [pattern |-> "",
                        coverage |-> [kind |-> "Include", attributes |-> <<>>],
                        tags |-> <<>>, action |-> [kind |-> "Hash"]]
    /\ lookups = <<>>
    /\ inserted_tags = FALSE
    /\ pc = "off"
    /\ event0 = event

Init == InitWith({Builtins})

InitAnyLibrary == InitWith({Builtins, CyclicBuiltins})

\* mutant: an empty pattern is replaced by the sentinel rule
SkipEmpty_as_sentinel ==
    /\ status = "idle"
    /\ idx < Len(patterns)
    /\ patterns[idx + 1] = ""
    /\ idx' = idx + 1
    /\ rules' = Append(rules, SentinelRule)
    /\ outcomes' = Append(outcomes, [pattern |-> "", err |-> Ok, reg |-> <<>>])
    /\ UNCHANGED <<scan_vars, patterns, aliases, PATTERNS, status, attempt, ctx, frames, reg>>

\* .filter(|&r| !r.is_empty()): an empty pattern yields nothing
SkipEmpty ==
    /\ status = "idle"
    /\ idx < Len(patterns)
    /\ patterns[idx + 1] = ""
    /\ idx' = idx + 1
    /\ UNCHANGED <<scan_vars, patterns, aliases, PATTERNS, rules, status, attempt, ctx,
                   frames, reg, outcomes>>

\* the closure of .map(): parse_pattern(r, &mut GrokRuleParseContext::new(..))
StartPattern ==
    /\ status = "idle"
    /\ idx < Len(patterns)
    /\ patterns[idx + 1] # ""
    /\ status' = "run"
    /\ attempt' = "pattern"
    /\ ctx' = GrokRuleParseContext_new(aliases)
    /\ frames' = <<Call("pattern", patterns[idx + 1], FALSE)>>
    /\ reg' = <<>>
    /\ UNCHANGED <<scan_vars, patterns, aliases, PATTERNS, idx, rules, outcomes>>

\* mutant: the sentinel is compiled in the context of the failed attempt
Failed_keeping_context(err) ==
    /\ outcomes' = Append(outcomes,
                       [pattern |-> patterns[idx + 1], err |-> err, reg |-> reg])
    /\ attempt' = "sentinel"
    /\ ctx' = [ctx EXCEPT !.regex = "", !.alias_stack = <<>>]
    /\ frames' = <<Call("pattern", Sentinel, FALSE)>>
    /\ reg' = <<>>
    /\ UNCHANGED <<scan_vars, patterns, aliases, PATTERNS, idx, rules, status>>

\* mutant: the error is reported as an error of the whole pattern
Failed_as_pattern_error(err) ==
    IF attempt = "pattern"
    THEN /\ outcomes' = Append(outcomes,
                            [pattern |-> patterns[idx + 1],
                             err |-> InvalidGrokExpression(patterns[idx + 1]),
                             reg |-> reg])
         /\ attempt' = "sentinel"
         /\ ctx' = GrokRuleParseContext_new(aliases)
         /\ frames' = <<Call("pattern", Sentinel, FALSE)>>
         /\ reg' = <<>>
         /\ UNCHANGED <<scan_vars, patterns, aliases, PATTERNS, idx, rules, status>>
    ELSE /\ status' = "panic"
         /\ UNCHANGED <<scan_vars, patterns, aliases, PATTERNS, idx, rules, attempt, ctx,
                        frames, reg, outcomes>>

\* an Err reaches parse_grok_rules: unwrap_or_else compiles the sentinel in
\* a new context; an Err of the sentinel itself makes expect() panic
Failed(err) ==
    IF attempt = "pattern"
    THEN /\ outcomes' = Append(outcomes,
                            [pattern |-> patterns[idx + 1], err |-> err, reg |-> reg])
         /\ attempt' = "sentinel"
         /\ ctx' = GrokRuleParseContext_new(aliases)
         /\ frames' = <<Call("pattern", Sentinel, FALSE)>>
         /\ reg' = <<>>
         /\ UNCHANGED <<scan_vars, patterns, aliases, PATTERNS, idx, rules, status>>
    ELSE /\ status' = "panic"
         /\ UNCHANGED <<scan_vars, patterns, aliases, PATTERNS, idx, rules, attempt, ctx,
                        frames, reg, outcomes>>

\* one iteration of the loop of parse_grok_rule in the innermost activation:
\* the literal before the next placeholder, then the placeholder
Expand ==
    /\ status = "run"
    /\ LET top == frames[Len(frames)]
           m == FindFrom(top.rule, top.regex_i)
       IN  /\ m[1] # 0
           /\ LET c0 == append_regex(ctx, Slice(top.rule, top.regex_i, m[1] - 1))
                  text == SubSeq(top.rule, m[1], m[2])
                  pattern == parse_grok_pattern(text)
                  r == IF pattern.ok THEN resolve_grok_pattern(pattern, c0)
                       ELSE [ctx |-> c0, err |-> InvalidGrokExpression(text),
                             call |-> NoCall, registered |-> <<>>]
                  advanced == [frames EXCEPT ![Len(frames)].regex_i = m[2] + 1]
              IN  IF r.err # Ok THEN Failed(r.err)
                  ELSE IF r.call.kind # "none" /\ Len(frames) >= MaxDepth
                  THEN \* the recursion exhausts the call stack
                       /\ status' = "overflow"
                       /\ UNCHANGED <<scan_vars, patterns, aliases, PATTERNS, idx, rules,
                                      attempt, ctx, frames, reg, outcomes>>
                  ELSE /\ ctx' = r.ctx
                       /\ frames' = IF r.call.kind # "none"
                                    THEN Append(advanced, r.call) ELSE advanced
                       /\ reg' = reg \o r.registered
                       /\ UNCHANGED <<scan_vars, patterns, aliases, PATTERNS, idx, rules,
                                      status, attempt, outcomes>>

\* mutant: parse_alias returns without popping the alias
Return_without_pop ==
    /\ status = "run"
    /\ LET top == frames[Len(frames)]
           c0 == append_regex(ctx, Slice(top.rule, top.regex_i, Len(top.rule)))
       IN  /\ FindFrom(top.rule, top.regex_i)[1] = 0
           /\ top.kind # "pattern"
           /\ ctx' = IF top.close THEN append_regex(c0, ")") ELSE c0
           /\ frames' = SubSeq(frames, 1, Len(frames) - 1)
    /\ UNCHANGED <<scan_vars, patterns, aliases, PATTERNS, idx, rules, status, attempt, reg,
                   outcomes>>

\* a nested parse_grok_rule appends its tail and returns Ok: parse_alias
\* pops the alias, and the caller closes the group it opened
Return ==
    /\ status = "run"
    /\ LET top == frames[Len(frames)]
           c0 == append_regex(ctx, Slice(top.rule, top.regex_i, Len(top.rule)))
           c1 == IF top.kind = "alias"
                 THEN [c0 EXCEPT !.alias_stack = SubSeq(@, 1, Len(@) - 1)]
                 ELSE c0
       IN  /\ FindFrom(top.rule, top.regex_i)[1] = 0
           /\ top.kind # "pattern"
           /\ ctx' = IF top.close THEN append_regex(c1, ")") ELSE c1
           /\ frames' = SubSeq(frames, 1, Len(frames) - 1)
    /\ UNCHANGED <<scan_vars, patterns, aliases, PATTERNS, idx, rules, status, attempt, reg,
                   outcomes>>

\* the outermost parse_grok_rule returns Ok and parse_pattern finishes
Finish ==
    /\ status = "run"
    /\ LET top == frames[Len(frames)]
           c0 == append_regex(ctx, Slice(top.rule, top.regex_i, Len(top.rule)))
           done == parse_pattern(c0)
       IN  /\ FindFrom(top.rule, top.regex_i)[1] = 0
           /\ top.kind = "pattern"
           /\ IF done.err # Ok THEN Failed(done.err)
              ELSE /\ rules' = Append(rules, done.rule)
                   /\ outcomes' = IF attempt = "pattern"
                                  THEN Append(outcomes,
                                           [pattern |-> patterns[idx + 1],
                                            err |-> Ok, reg |-> reg])
                                  ELSE outcomes
                   /\ idx' = idx + 1
                   /\ status' = "idle"
                   /\ ctx' = c0
                   /\ frames' = <<>>
                   /\ UNCHANGED <<scan_vars, patterns, aliases, PATTERNS, attempt, reg>>

\* .collect(): parse_grok_rules returns Ok(rules)
Collect ==
    /\ status = "idle"
    /\ idx = Len(patterns)
    /\ status' = "done"
    /\ UNCHANGED <<scan_vars, patterns, aliases, PATTERNS, idx, rules, attempt, ctx, frames,
                   reg, outcomes>>

Next == SkipEmpty \/ StartPattern \/ Expand \/ Return \/ Finish \/ Collect

Spec == Init /\ [][Next]_vars

\* the same program with any builtin library
SpecAnyLibrary == InitAnyLibrary /\ [][Next]_vars

-----------------------------------------------------------------------------
(* What the properties below speak of *)

NonEmpty == SelectSeq(patterns, LAMBDA p : p # "")

HasPlaceholder(rule) == FindFrom(rule, 1)[1] # 0

\* the first placeholder of a rule text, parsed
FirstPlaceholder(rule) ==
    LET m == FindFrom(rule, 1) IN parse_grok_pattern(SubSeq(rule, m[1], m[2]))

ErrorKinds ==
    {"InvalidGrokExpression", "InvalidFunctionArguments", "UnknownFilter",
     "CircularDependencyInAliasDefinition"}

GrokNames(n) == {"grok" \o ToString(k) : k \in 0..(n - 1)}

-----------------------------------------------------------------------------
\* C1: parse_grok_rules yields exactly one rule per non-empty pattern, in
\* the order of the non-empty patterns: after idx inputs the output holds as
\* many rules as there are non-empty strings among them, the i-th rule comes
\* from the i-th non-empty pattern (a pattern without placeholders is found
\* anchored at its own position), and an empty string adds nothing.
C1_OneRulePerNonEmptyPattern ==
    /\ status \in {"idle", "done"} =>
           Len(rules) = Cardinality({i \in 1..idx : patterns[i] # ""})
    /\ status = "done" => idx = Len(patterns) /\ Len(rules) = Len(NonEmpty)
    /\ \A i \in DOMAIN rules :
           /\ outcomes[i].pattern = NonEmpty[i]
           /\ NonEmpty[i] \in {"lit|x", "plain text"} =>
                  rules[i].pattern = "\\A" \o NonEmpty[i] \o "\\z"
           /\ HasPlaceholder(NonEmpty[i]) => rules[i].pattern # "\\A" \o "lit|x" \o "\\z"

\* a finished batch with an empty string between two non-empty patterns
C1_Witness ==
    /\ status = "done"
    /\ Len(patterns) = 3
    /\ patterns[1] = "lit|x" /\ patterns[2] = "" /\ patterns[3] # ""
    /\ patterns[3] # "lit|x"
    /\ Len(rules) = 2

C3_RuleDependsOnPatternOnly ==
    /\ \A i, j \in DOMAIN rules :
           outcomes[i].pattern = outcomes[j].pattern =>
               rules[i] = rules[j] /\ outcomes[i].err = outcomes[j].err
    /\ \A i \in DOMAIN rules :
           DOMAIN rules[i].fields = GrokNames(Cardinality(DOMAIN rules[i].fields))

\* the same alias-expanding pattern compiled twice, a failing pattern
\* between the two
C3_Witness ==
    /\ status = "done"
    /\ Len(rules) = 3
    /\ outcomes[1].pattern = "%{b:f}=%{b}" /\ outcomes[3].pattern = "%{b:f}=%{b}"
    /\ outcomes[1].err = Ok /\ outcomes[2].err # Ok
    /\ Cardinality(DOMAIN rules[3].fields) = 5

-----------------------------------------------------------------------------
(* The graph of name references *)

RECURSIVE PlaceholderNames(_, _)
\* the matcher names of the placeholders of rule[i..]
PlaceholderNames(rule, i) ==
    LET m == FindFrom(rule, i)
    IN  IF m[1] = 0 THEN {}
        ELSE {parse_grok_pattern(SubSeq(rule, m[1], m[2])).name}
                 \cup PlaceholderNames(rule, m[2] + 1)

\* the names the definition of n refers to: an alias hides a builtin
Refs(n) ==
    IF n \in DOMAIN aliases THEN PlaceholderNames(aliases[n], 1)
    ELSE IF n \in DOMAIN PATTERNS THEN PlaceholderNames(PATTERNS[n], 1)
    ELSE {}

RECURSIVE ReachN(_, _)
ReachN(S, k) ==
    IF k = 0 THEN S ELSE ReachN(S \cup UNION {Refs(n) : n \in S}, k - 1)

\* the names reached from n in one reference or more
Reach(n) ==
    ReachN(Refs(n), Cardinality(DOMAIN aliases) + Cardinality(DOMAIN PATTERNS))

\* n is an alias that lies on a cycle of references
CyclicAlias(n) == n \in DOMAIN aliases /\ n \in Reach(n)

\* the expansion of alias n leads into a cycle of aliases
EntersCycle(n) ==
    n \in DOMAIN aliases /\ \E m \in Reach(n) \cup {n} : CyclicAlias(m)

\* C4: a pattern whose first placeholder names an alias that lies on, or
\* leads into, a cycle of alias references fails with
\* CircularDependencyInAliasDefinition, with or without a destination; the
\* expansion stops within as many nested aliases as the table has names.
C4_CycleAlwaysRejected ==
    /\ status # "overflow"
    /\ Len(ctx.alias_stack) <= Cardinality(DOMAIN aliases)
    /\ \A i \in DOMAIN outcomes :
           LET first == FirstPlaceholder(outcomes[i].pattern)
           IN  (/\ HasPlaceholder(outcomes[i].pattern)
                /\ first.ok
                /\ first.has_filter => first.filter.name \in KnownFilters
                /\ EntersCycle(first.name))
               => outcomes[i].err.kind = "CircularDependencyInAliasDefinition"

\* a -> %{b}, b -> %{a} entered through b with a destination
C4_Witness ==
    /\ status = "done"
    /\ patterns = <<"%{b:f}">>
    /\ "a" \in DOMAIN aliases /\ aliases["a"] = "%{b}" /\ aliases["b"] = "%{a}"
    /\ outcomes[1].err = CircularDependencyInAliasDefinition("b")
    /\ rules = <<SentinelRule>>

\* C5: the expansion of a pattern never exhausts the call stack: every
\* cycle of name references, through aliases or through builtin
\* definitions, is cut before the recursion runs away.
C5_ExpansionIsCut == status = "overflow" => Len(frames) < MaxDepth

-----------------------------------------------------------------------------
TypedMatchers == {"integer", "integerExt", "number", "numberExt", "date"}

\* the chain of a registered field is the filter its matcher implies, then
\* the filter the placeholder declares
ImplicitThenExplicit(chain, pattern) ==
    /\ Len(chain) = 2
    /\ IF pattern.name = "date"
       THEN chain[1].kind = "date" /\ chain[1].original_format = pattern.args[1].val
       ELSE chain[1] = [kind |-> pattern.name, args |-> <<>>]
    /\ chain[2] = [kind |-> pattern.filter.name, args |-> pattern.filter.args]

\* C6: in every compiled rule, a field registered by a placeholder whose
\* matcher is integer, integerExt, number, numberExt or date (the name is
\* looked up among the user aliases first, and an alias of that name is an
\* alias matcher, not a typed one) and that declares a filter has the chain
\* [implicit filter, explicit filter].
C6_ImplicitFilterFirst ==
    \A i \in DOMAIN rules :
        outcomes[i].err = Ok =>
            \A k \in DOMAIN outcomes[i].reg :
                LET r == outcomes[i].reg[k]
                IN  (/\ r.pattern.name \in TypedMatchers
                     /\ r.pattern.has_filter
                     /\ ~r.is_alias)
                    => ImplicitThenExplicit(rules[i].fields[r.name].filters, r.pattern)

\* a compiled date placeholder and a compiled number placeholder, each
\* with an explicit filter
C6_Witness ==
    /\ status = "done"
    /\ Len(rules) = 1
    /\ outcomes[1].err = Ok
    /\ outcomes[1].pattern \in {"%{date(\"yyyy-MM-dd\"):d:lowercase}",
                                "%{number:n:nullIf(\"-\")}"}
    /\ Len(rules[1].fields["grok0"].filters) = 2
    /\ rules[1].fields["grok0"].filters[1].kind \in {"date", "number"}

\* C7: the k-th field registered while a pattern is compiled is named
\* grok(k-1), inside nested expansions too; the names are distinct, and no
\* registration replaces a field registered before it.
C7_CaptureNamesInRegistrationOrder ==
    /\ \A k \in DOMAIN reg : reg[k].name = "grok" \o ToString(k - 1)
    /\ Cardinality(DOMAIN ctx.fields) = Len(reg)
    /\ \A k \in DOMAIN reg :
           /\ reg[k].name \in DOMAIN ctx.fields
           /\ ctx.fields[reg[k].name].lookup = reg[k].pattern.path
    /\ \A i \in DOMAIN rules :
           outcomes[i].err = Ok =>
               /\ Cardinality(DOMAIN rules[i].fields) = Len(outcomes[i].reg)
               /\ \A k \in DOMAIN outcomes[i].reg :
                      /\ outcomes[i].reg[k].name = "grok" \o ToString(k - 1)
                      /\ rules[i].fields[outcomes[i].reg[k].name].lookup
                             = outcomes[i].reg[k].pattern.path

\* a rule with five fields: an alias that registers two fields, expanded
\* twice, once under a destination
C7_Witness ==
    /\ status = "done"
    /\ patterns = <<"%{b:f}=%{b}">>
    /\ outcomes[1].err = Ok
    /\ DOMAIN rules[1].fields = {"grok0", "grok1", "grok2", "grok3", "grok4"}
    /\ rules[1].fields["grok3"].lookup = "n"

-----------------------------------------------------------------------------
(* The step the running parse_grok_rule is about to take *)

Top == frames[Len(frames)]

NextSpan == FindFrom(Top.rule, Top.regex_i)

NextPlaceholder == parse_grok_pattern(SubSeq(Top.rule, NextSpan[1], NextSpan[2]))

\* the literal text before the next placeholder, or up to the end
Literal ==
    Slice(Top.rule, Top.regex_i,
          IF NextSpan[1] = 0 THEN Len(Top.rule) ELSE NextSpan[1] - 1)

\* this step resolves the next placeholder without an error
Resolves ==
    /\ status = "run" /\ NextSpan[1] # 0 /\ NextPlaceholder.ok
    /\ status' = "run" /\ attempt' = attempt /\ frames' # frames

\* this step returns from the nested activation of the given kind
Returns(kind) ==
    /\ status = "run" /\ Top.kind = kind
    /\ status' = "run" /\ attempt' = attempt /\ Len(frames') < Len(frames)

\* the group a placeholder opens: named under a destination, else non-capturing
OpenGroup(pattern) ==
    IF pattern.has_dest
    THEN "(?P<" \o generate_grok_compliant_name(ctx) \o ">"
    ELSE "(?:"

\* the fragment of a matcher that is not expanded from a definition
InlineFragment(pattern) ==
    CASE pattern.name = "regex" -> pattern.args[1].val
      [] pattern.name = "date" -> time_format_to_regex(pattern.args[1].val, FALSE).regex
      [] OTHER -> "TODO"

\* C8: a placeholder whose matcher is not a user alias appends its fragment
\* wrapped in one group and nothing else: the group is opened right after
\* the literal, the fragment follows (at once, or as the expansion of the
\* builtin definition), and the closing parenthesis ends it.
C8_FragmentWrappedInOneGroup ==
    [][/\ (Resolves /\ NextPlaceholder.name \notin DOMAIN aliases) =>
              ctx'.regex = ctx.regex \o Literal \o OpenGroup(NextPlaceholder)
                  \o (IF Len(frames') > Len(frames) THEN ""
                      ELSE InlineFragment(NextPlaceholder) \o ")")
       /\ Returns("builtin") => ctx'.regex = ctx.regex \o Literal \o ")"]_vars

\* C9: a placeholder whose matcher is a user alias wraps the whole expanded
\* alias in one group: the group is opened right after the literal, named
\* under a destination and non-capturing without one, and closed when the
\* expansion of the alias returns.
C9_AliasWrappedInOneGroup ==
    [][/\ (Resolves /\ NextPlaceholder.name \in DOMAIN aliases) =>
              ctx'.regex = ctx.regex \o Literal \o OpenGroup(NextPlaceholder)
       /\ Returns("alias") => ctx'.regex = ctx.regex \o Literal \o ")"]_vars

\* C10: a pattern that begins with a regex placeholder compiles only if the
\* placeholder has exactly one argument and that argument is a string;
\* otherwise it fails with InvalidFunctionArguments(regex); a compiled regex
\* field carries no filter but the declared one.
C10_RegexTakesOneString ==
    \A i \in DOMAIN outcomes :
        LET first == FirstPlaceholder(outcomes[i].pattern)
        IN  (/\ HasPlaceholder(outcomes[i].pattern)
             /\ first.ok
             /\ first.name = "regex"
             /\ "regex" \notin DOMAIN aliases
             /\ first.has_filter => first.filter.name \in KnownFilters)
            => IF first.has_args /\ Len(first.args) = 1 /\ first.args[1].str
               THEN /\ outcomes[i].err.kind # "InvalidFunctionArguments"
                    /\ \A k \in DOMAIN outcomes[i].reg :
                           outcomes[i].err = Ok =>
                               Len(rules[i].fields[outcomes[i].reg[k].name].filters)
                                   = IF first.has_filter THEN 1 ELSE 0
               ELSE outcomes[i].err = InvalidFunctionArguments("regex")

-----------------------------------------------------------------------------
\* the pattern is one placeholder and nothing else
OnlyPlaceholder(p) == FindFrom(p, 1) = <<1, Len(p)>>

\* the first attempt at pattern i was a pattern made of one date placeholder
\* that the parser accepts, date not being the name of an alias
DateAlone(i) ==
    /\ OnlyPlaceholder(outcomes[i].pattern)
    /\ FirstPlaceholder(outcomes[i].pattern).ok
    /\ FirstPlaceholder(outcomes[i].pattern).name = "date"
    /\ "date" \notin DOMAIN aliases
    /\ FirstPlaceholder(outcomes[i].pattern).has_filter =>
           FirstPlaceholder(outcomes[i].pattern).filter.name \in KnownFilters

\* C11: a date placeholder compiles only with one or two arguments that are
\* all strings; with no argument list, no argument, more than two, a format
\* that is not a string or a second argument that is not a string, the
\* pattern fails with InvalidFunctionArguments(date).
C11_DateTakesStrings ==
    \A i \in DOMAIN outcomes :
        LET first == FirstPlaceholder(outcomes[i].pattern)
        IN  DateAlone(i) =>
                IF /\ first.has_args
                   /\ Len(first.args) \in {1, 2}
                   /\ \A k \in DOMAIN first.args : first.args[k].str
                THEN outcomes[i].err \in {Ok, InvalidFunctionArguments("date")}
                ELSE outcomes[i].err = InvalidFunctionArguments("date")

\* the date filter of the only field of rule i
DateFilterOf(i) == rules[i].fields["grok0"].filters[1]

\* C12: for a date placeholder with format F and a string timezone Z: when
\* the validator rejects Z the pattern fails with InvalidFunctionArguments
\* and leaves the sentinel rule (no filter, no date fragment); when it
\* accepts Z and F translates, the pattern compiles and the field's date
\* filter carries target timezone Z and format F; without Z the date filter
\* carries no target timezone.
C12_TimezoneValidated ==
    \A i \in DOMAIN rules :
        LET first == FirstPlaceholder(outcomes[i].pattern)
            F == first.args[1].val
            Z == first.args[2].val
            translates == time_format_to_regex(F, TRUE).ok /\ convert_time_format(F).ok
        IN  (/\ DateAlone(i)
             /\ first.has_args /\ Len(first.args) \in {1, 2}
             /\ \A k \in DOMAIN first.args : first.args[k].str)
            => IF Len(first.args) = 2 /\ ~parse_timezone(Z)
               THEN /\ outcomes[i].err = InvalidFunctionArguments("date")
                    /\ rules[i] = SentinelRule
               ELSE translates =>
                    /\ outcomes[i].err = Ok
                    /\ first.has_dest =>
                         /\ DOMAIN rules[i].fields = {"grok0"}
                         /\ Len(rules[i].fields["grok0"].filters) >= 1
                         /\ DateFilterOf(i).kind = "date"
                         /\ DateFilterOf(i).original_format = F
                         /\ DateFilterOf(i).has_target_tz = (Len(first.args) = 2)
                         /\ Len(first.args) = 2 => DateFilterOf(i).target_tz = Z
                    /\ ~first.has_dest => rules[i].fields = <<>>

\* compiled: a date with an accepted timezone; replaced: one with a
\* rejected timezone
C12_Witness ==
    /\ status = "done"
    /\ \/ /\ patterns = <<"%{date(\"yyyy-MM-dd\",\"America/New_York\"):d}">>
          /\ outcomes[1].err = Ok
          /\ DateFilterOf(1).target_tz = "America/New_York"
       \/ /\ patterns = <<"%{date(\"yyyy-MM-dd\",\"Not/AZone\"):d}">>
          /\ outcomes[1].err = InvalidFunctionArguments("date")
          /\ rules = <<SentinelRule>>

-----------------------------------------------------------------------------
StartsWith(s, t) == Len(s) >= Len(t) /\ SubSeq(s, 1, Len(t)) = t

EndsWith(s, t) == Len(s) >= Len(t) /\ SubSeq(s, Len(s) - Len(t) + 1, Len(s)) = t

SpecialMatchers ==
    {"regex", "date", "boolean", "integer", "integerExt", "number", "numberExt"}

\* the next placeholder parses, declares no unknown filter, and names
\* neither a special matcher, nor a user alias, nor a builtin pattern
NextIsUnknownName ==
    /\ status = "run" /\ NextSpan[1] # 0 /\ NextPlaceholder.ok
    /\ NextPlaceholder.has_filter => NextPlaceholder.filter.name \in KnownFilters
    /\ NextPlaceholder.name \notin SpecialMatchers
    /\ NextPlaceholder.name \notin DOMAIN aliases
    /\ NextPlaceholder.name \notin DOMAIN PATTERNS

\* C13: resolving a placeholder whose name is neither a special matcher,
\* nor a user alias, nor a builtin pattern raises no error: the group ends
\* with the fixed literal TODO, the field of a destination is registered
\* under the next capture name (and no field without one), and the loop
\* goes on after the placeholder in the same activation.
C13_UnknownNameIsInert ==
    [][NextIsUnknownName =>
          /\ status' = "run" /\ attempt' = attempt /\ outcomes' = outcomes
          /\ StartsWith(ctx'.regex, ctx.regex \o Literal)
          /\ EndsWith(ctx'.regex, "TODO)")
          /\ Len(ctx'.regex) <= Len(ctx.regex \o Literal) + Len("(?P<grok99>TODO)")
          /\ IF NextPlaceholder.has_dest
             THEN /\ DOMAIN ctx'.fields =
                         DOMAIN ctx.fields \cup {generate_grok_compliant_name(ctx)}
                  /\ generate_grok_compliant_name(ctx) \notin DOMAIN ctx.fields
                  /\ ctx'.fields[generate_grok_compliant_name(ctx)].lookup
                         = NextPlaceholder.path
             ELSE ctx'.fields = ctx.fields
          /\ Len(frames') = Len(frames)
          /\ frames'[Len(frames')] = [Top EXCEPT !.regex_i = NextSpan[2] + 1]]_vars

\* an unknown name under a destination, followed by text and by a builtin
C13_Witness ==
    /\ status = "done"
    /\ patterns = <<"%{nope:u} then %{word:w}">>
    /\ outcomes[1].err = Ok
    /\ rules[1].pattern = "\\A(?P<grok0>TODO) then (?P<grok1>\\w+)\\z"
    /\ rules[1].fields["grok0"].lookup = "u"

-----------------------------------------------------------------------------
\* the positions of the letter s in the modifiers (?s) and (?-s) of text
ModifierLetters(text) ==
    {i + 2 : i \in {k \in 1..(Len(text) - 3) : SubSeq(text, k, k + 3) = "(?s)"}}
        \cup
    {i + 3 : i \in {k \in 1..(Len(text) - 4) : SubSeq(text, k, k + 4) = "(?-s)"}}

\* out is text with the letter of each modifier changed to m, and nothing
\* else changed
IsTranslationOf(out, text) ==
    /\ Len(out) = Len(text)
    /\ \A j \in 1..Len(text) :
           Char(out, j) = IF j \in ModifierLetters(text) THEN "m" ELSE Char(text, j)

\* C14 as stated: a compiled rule is \A + body + \z, and for a pattern
\* without placeholders body is the pattern text itself and the field map
\* is empty.
C14_LiteralsCopiedVerbatim_AsStated ==
    \A i \in DOMAIN rules :
        outcomes[i].err = Ok =>
            /\ StartsWith(rules[i].pattern, "\\A")
            /\ EndsWith(rules[i].pattern, "\\z")
            /\ ~HasPlaceholder(outcomes[i].pattern) =>
                   rules[i] = [pattern |-> "\\A" \o outcomes[i].pattern \o "\\z",
                               fields |-> <<>>]

\* C14, amended: every step of a compilation appends the literal span in
\* front of it verbatim, then the contribution of the placeholder; the rule
\* is \A + the composed text + \z after the translation of the modifiers
\* (?s) and (?-s), with the fields of the context; so a pattern without
\* placeholders gives \A + pattern + \z, modifiers translated, and no field.
C14_LiteralsCopiedVerbatim ==
    /\ [](\A i \in DOMAIN rules :
             outcomes[i].err = Ok =>
                 /\ StartsWith(rules[i].pattern, "\\A")
                 /\ EndsWith(rules[i].pattern, "\\z")
                 /\ ~HasPlaceholder(outcomes[i].pattern) =>
                        /\ IsTranslationOf(rules[i].pattern,
                                           "\\A" \o outcomes[i].pattern \o "\\z")
                        /\ rules[i].fields = <<>>)
    /\ [][/\ (/\ status = "run" /\ status' = "run"
              /\ attempt' = attempt /\ frames' # frames)
             => StartsWith(ctx'.regex, ctx.regex \o Literal)
          /\ (/\ status = "run" /\ status' = "run"
              /\ attempt' = attempt /\ Len(frames') < Len(frames))
             => Len(ctx'.regex) <= Len(ctx.regex \o Literal) + 1
          /\ (status = "run" /\ status' = "idle")
             => /\ Len(rules') = Len(rules) + 1
                /\ IsTranslationOf(rules'[Len(rules')].pattern,
                                   "\\A" \o ctx.regex \o Literal \o "\\z")
                /\ rules'[Len(rules')].fields = ctx.fields]_vars

\* a builtin under a destination followed by literal text, both with a
\* modifier
C14_Witness ==
    /\ status = "done"
    /\ patterns = <<"%{greedy:g}(?-s)">>
    /\ outcomes[1].err = Ok
    /\ rules[1].pattern = "\\A(?P<grok0>(?m).*)(?-m)\\z"

-----------------------------------------------------------------------------
\* this step abandons the first attempt at the current pattern with error e
AbortsWith(e) ==
    /\ attempt' = "sentinel"
    /\ Len(outcomes') = Len(outcomes) + 1
    /\ outcomes'[Len(outcomes')].pattern = patterns[idx + 1]
    /\ outcomes'[Len(outcomes')].err = e

\* C15: in an activation of any depth, a placeholder the parser rejects
\* aborts the whole top-level pattern with InvalidGrokExpression carrying
\* the placeholder's text, and a destination filter without implementation
\* aborts it with UnknownFilter; an aborted attempt adds no rule, its
\* context (partial regex, fields) is dropped, and the rule that ends up at
\* the position of the pattern is the sentinel.
C15_ErrorAbortsWholePattern ==
    /\ [](\A i \in DOMAIN rules : outcomes[i].err # Ok => rules[i] = SentinelRule)
    /\ [][(status = "run" /\ attempt = "pattern" /\ NextSpan[1] # 0) =>
             /\ ~NextPlaceholder.ok =>
                    AbortsWith(InvalidGrokExpression(
                                   SubSeq(Top.rule, NextSpan[1], NextSpan[2])))
             /\ (/\ NextPlaceholder.ok
                 /\ NextPlaceholder.has_filter
                 /\ NextPlaceholder.filter.name \notin KnownFilters)
                => AbortsWith(UnknownFilter(NextPlaceholder.filter.name))
             /\ attempt' = "sentinel" =>
                    /\ rules' = rules
                    /\ Len(outcomes') = Len(outcomes) + 1
                    /\ outcomes'[Len(outcomes')].err # Ok
                    /\ ctx'.regex = "" /\ ctx'.fields = <<>>
                    /\ frames' = <<Call("pattern", Sentinel, FALSE)>>]_vars

\* a placeholder the parser rejects, met three expansions deep: under the
\* builtin hostname, the alias word and the alias e
C15_Witness ==
    /\ status = "done"
    /\ patterns = <<"%{hostname:h}">>
    /\ "e" \in DOMAIN aliases
    /\ outcomes[1].err = InvalidGrokExpression("%{:x}")
    /\ rules = <<SentinelRule>>

-----------------------------------------------------------------------------
\* the quotes of p that are not escaped by a backslash
Quotes(p) == {j \in 1..Len(p) : Char(p, j) = "\"" /\ Char(p, j - 1) # "\\"}

\* the first closing brace of p that stands outside a quoted string, 0 if none
ClosingBrace(p) ==
    LET braces == {j \in 1..Len(p) : Char(p, j) = "}" /\ ~InQuote(p, j)}
    IN  IF braces = {} THEN 0 ELSE Min(braces)

\* p begins with a placeholder that holds exactly one quoted string, closed
\* inside the placeholder, and no escaped quote outside that string
BeginsWithQuotedPlaceholder(p) ==
    /\ StartsWith(p, "%{")
    /\ ClosingBrace(p) > 3
    /\ Cardinality({j \in Quotes(p) : j < ClosingBrace(p)}) = 2
    /\ \A j \in 1..ClosingBrace(p) :
           (Char(p, j) = "\"" /\ j \notin Quotes(p)) => InQuote(p, j)

\* the text between the two quotes of the placeholder p begins with
QuotedText(p) ==
    LET q == {j \in Quotes(p) : j < ClosingBrace(p)}
    IN  Slice(p, Min(q) + 1, (CHOOSE j \in q : j # Min(q)) - 1)

\* val is raw without the backslashes that escape a quote
IsUnescaped(val, raw) ==
    LET kept == {j \in 1..Len(raw) :
                    ~(Char(raw, j) = "\\" /\ Char(raw, j + 1) = "\"")}
        kth(n) == CHOOSE j \in kept : Cardinality({m \in kept : m < j}) = n - 1
    IN  /\ Len(val) = Cardinality(kept)
        /\ \A n \in 1..Len(val) : Char(val, n) = Char(raw, kth(n))

\* C16: a placeholder with a double-quoted argument is one span of the
\* scanner, from %{ to the first closing brace outside the quoted string,
\* whatever escaped quotes and closing braces the string holds; when the
\* string is the argument of the filter of a compiled field, the parameter
\* of the filter is the quoted text without the escaping backslashes.
C16_QuotedArgumentIsOneSpan ==
    \A i \in DOMAIN outcomes :
        LET p == outcomes[i].pattern
            first == FirstPlaceholder(p)
        IN  BeginsWithQuotedPlaceholder(p) =>
                /\ FindFrom(p, 1) = <<1, ClosingBrace(p)>>
                /\ (/\ outcomes[i].err = Ok /\ first.has_filter
                    /\ ~first.has_args /\ first.name \notin TypedMatchers)
                   => /\ Len(rules[i].fields["grok0"].filters) = 1
                      /\ Len(rules[i].fields["grok0"].filters[1].args) = 1
                      /\ IsUnescaped(rules[i].fields["grok0"].filters[1].args[1].val,
                                     QuotedText(p))

\* the filter parameter of the pattern with escaped quotes
C16_Witness ==
    /\ status = "done"
    /\ patterns = <<"%{word:field:nullIf(\"with \\\"escaped\\\" quotes\")}">>
    /\ outcomes[1].err = Ok
    /\ rules[1].fields["grok0"].filters[1].args[1].val = "with \"escaped\" quotes"

-----------------------------------------------------------------------------
\* the next placeholder parses, declares no unknown filter, and names a
\* user alias
NextIsAlias ==
    /\ status = "run" /\ NextSpan[1] # 0 /\ NextPlaceholder.ok
    /\ NextPlaceholder.has_filter => NextPlaceholder.filter.name \in KnownFilters
    /\ NextPlaceholder.name \in DOMAIN aliases

\* C17: when the alias a placeholder names is already on the expansion
\* stack, the pattern fails with CircularDependencyInAliasDefinition
\* carrying the first (outermost) entry of the stack, whichever alias is
\* the repeated one.
C17_CircularErrorNamesOutermost ==
    [][(NextIsAlias /\ NextPlaceholder.name \in Range(ctx.alias_stack)) =>
          AbortsWith(CircularDependencyInAliasDefinition(ctx.alias_stack[1]))]_vars

\* a -> %{b}, b -> %{c}, c -> %{b} entered through a: b is the repeated
\* alias, a is the one reported
C17_Witness ==
    /\ status = "done"
    /\ patterns = <<"%{a}">>
    /\ DOMAIN aliases = {"a", "b", "c"}
    /\ aliases["b"] = "%{c}" /\ aliases["c"] = "%{b}"
    /\ outcomes[1].err = CircularDependencyInAliasDefinition("a")

-----------------------------------------------------------------------------
\* C18: no rule holds the modifier (?s) or (?-s); the regex of the rule
\* just compiled is \A + the composed text + \z with the letter of every
\* such modifier changed to m, whatever the modifier came from, and with
\* nothing else changed.
C18_DialectModifiersTranslated ==
    /\ \A i \in DOMAIN rules : ModifierLetters(rules[i].pattern) = {}
    /\ (status \in {"idle", "done"} /\ rules # <<>>) =>
           IsTranslationOf(rules[Len(rules)].pattern, "\\A" \o ctx.regex \o "\\z")

\* both modifiers, brought in by an alias under a destination
C18_Witness ==
    /\ status = "done"
    /\ patterns = <<"%{d:all}">>
    /\ ctx.regex = "(?P<grok0>(?s).*(?-s))"
    /\ rules[1].pattern = "\\A(?P<grok0>(?m).*(?-m))\\z"

-----------------------------------------------------------------------------
\* the activations that expand an alias, outermost first
AliasFrames == SelectSeq(frames, LAMBDA f : f.kind = "alias")

\* C19: the alias stack holds no name twice and holds exactly the aliases
\* being expanded, outermost first; it is empty when no pattern is being
\* compiled; naming an alias that is not on the stack pushes it and never
\* fails as circular, and the return of its expansion pops it, leaving the
\* stack as it was before.
C19_AliasStackDiscipline ==
    /\ [](/\ \A j, k \in DOMAIN ctx.alias_stack :
                 ctx.alias_stack[j] = ctx.alias_stack[k] => j = k
          /\ status \in {"idle", "done"} => ctx.alias_stack = <<>>
          /\ status = "run" =>
                 /\ Len(AliasFrames) = Len(ctx.alias_stack)
                 /\ \A k \in DOMAIN AliasFrames :
                        /\ ctx.alias_stack[k] \in DOMAIN aliases
                        /\ AliasFrames[k].rule = aliases[ctx.alias_stack[k]])
    /\ [][/\ (NextIsAlias /\ NextPlaceholder.name \notin Range(ctx.alias_stack)) =>
                 /\ status' = "run" /\ attempt' = attempt
                 /\ ctx'.alias_stack = Append(ctx.alias_stack, NextPlaceholder.name)
                 /\ Len(frames') = Len(frames) + 1
                 /\ frames'[Len(frames')].kind = "alias"
          /\ Returns("alias") =>
                 /\ ctx.alias_stack # <<>>
                 /\ ctx'.alias_stack
                        = SubSeq(ctx.alias_stack, 1, Len(ctx.alias_stack) - 1)
          /\ (status = "run" /\ status' = "run" /\ Top.kind # "alias"
              /\ Len(frames') <= Len(frames) /\ attempt' = attempt) =>
                 ctx'.alias_stack = ctx.alias_stack]_vars

\* the alias a named by the pattern and twice in a row by the alias c, all
\* three expanded
C19_Witness ==
    /\ status = "done"
    /\ patterns = <<"%{a:f:lowercase} and %{c:g}">>
    /\ outcomes[1].err = Ok
    /\ rules[1].pattern = "\\A(?P<grok0>x|y) and (?P<grok1>x|yx|y)\\z"

-----------------------------------------------------------------------------
\* the number of places at which t occurs in text
Occurrences(text, t) ==
    Cardinality({k \in 1..(Len(text) - Len(t) + 1) :
                    SubSeq(text, k, k + Len(t) - 1) = t})

\* every key of the field map opens exactly one named group of the text,
\* and the text has no other group named grokK
FieldsMatchGroups(fields, text) ==
    /\ \A name \in DOMAIN fields : Occurrences(text, "(?P<" \o name \o ">") = 1
    /\ Occurrences(text, "(?P<grok") = Cardinality(DOMAIN fields)

\* C20: while a pattern is compiled and in every compiled rule, the field
\* map has one entry per placeholder with a destination resolved so far and
\* each of its keys opens exactly one named group of the regex; resolving a
\* placeholder without a destination leaves the field map as it was: no
\* field, and no filter, implicit or not.
C20_FieldsMatchNamedGroups ==
    /\ [](/\ FieldsMatchGroups(ctx.fields, ctx.regex)
          /\ Cardinality(DOMAIN ctx.fields) = Len(reg)
          /\ \A i \in DOMAIN rules :
                 /\ FieldsMatchGroups(rules[i].fields, rules[i].pattern)
                 /\ outcomes[i].err = Ok =>
                        Cardinality(DOMAIN rules[i].fields) = Len(outcomes[i].reg))
    /\ [][(Resolves /\ ~NextPlaceholder.has_dest) =>
             ctx'.fields = ctx.fields /\ reg' = reg]_vars

\* a typed matcher without destination next to a builtin with one: one
\* field, one named group, and no filter of the typed matcher anywhere
C20_Witness ==
    /\ status = "done"
    /\ patterns = <<"%{integer} %{word:w}">>
    /\ aliases = <<>>
    /\ outcomes[1].err = Ok
    /\ DOMAIN rules[1].fields = {"grok0"}
    /\ rules[1].fields["grok0"] = [lookup |-> "w", filters |-> <<>>]

-----------------------------------------------------------------------------
\* the next placeholder names a user alias whose name is also the name of a
\* special matcher or of a builtin pattern
NextIsOverridingAlias ==
    /\ NextIsAlias
    /\ NextPlaceholder.name \in SpecialMatchers \cup DOMAIN PATTERNS

\* the filters a placeholder declares by itself
DeclaredFilters(pattern) ==
    IF pattern.has_filter
    THEN <<[kind |-> pattern.filter.name, args |-> pattern.filter.args]>>
    ELSE <<>>

\* C21: a placeholder whose name is a user alias and also a special matcher
\* or a builtin pattern resolves to the alias: when the alias is on the
\* expansion stack the pattern fails as circular; otherwise, whatever the
\* placeholder's arguments, no error is raised, the alias definition is
\* entered as a nested rule with the alias pushed on the stack, and the
\* field of a destination carries the declared filter only.
C21_AliasOverridesMatcher ==
    [][NextIsOverridingAlias =>
          IF NextPlaceholder.name \in Range(ctx.alias_stack)
          THEN AbortsWith(CircularDependencyInAliasDefinition(ctx.alias_stack[1]))
          ELSE /\ status' = "run" /\ attempt' = attempt
               /\ frames'[Len(frames')] =
                      Call("alias", aliases[NextPlaceholder.name],
                           NextPlaceholder.has_dest)
               /\ ctx'.alias_stack = Append(ctx.alias_stack, NextPlaceholder.name)
               /\ IF NextPlaceholder.has_dest
                  THEN ctx'.fields =
                           (generate_grok_compliant_name(ctx) :>
                                [lookup |-> NextPlaceholder.path,
                                 filters |-> DeclaredFilters(NextPlaceholder)])
                               @@ ctx.fields
                  ELSE ctx'.fields = ctx.fields]_vars

\* an alias named regex, used with an argument the regex matcher rejects
C21_Witness ==
    /\ status = "done"
    /\ patterns = <<"%{regex(1)}">>
    /\ "regex" \in DOMAIN aliases
    /\ outcomes[1].err = Ok
    /\ rules[1].pattern = "\\A(?P<grok0>[+-]?\\d+(?:\\.\\d+)?)\\z"

-----------------------------------------------------------------------------
(* The sensitive data scanner of src/transforms/datadog_sensitive_data_     *)
(* scanner.rs: ScanningRule::scan on one event.  A log event is the map     *)
(* from the paths of its leaves ("namespace.match.here", "list[0]") to      *)
(* their values; the pattern of a rule is a literal text without capture    *)
(* groups.                                                                  *)

Bytes(s) == [t |-> "Bytes", v |-> s]

Other(t) == [t |-> t, v |-> ""]

\* str::starts_with
starts_with(s, t) == Len(t) <= Len(s) /\ SubSeq(s, 1, Len(t)) = t

\* LogEvent::keys: the paths of the leaves of the event
keys(log) == DOMAIN log.fields

\* LogEvent::get_mut(path): the leaves of the value at `path`, {} for None
get_mut(log, path) ==
    {k \in DOMAIN log.fields :
        k = path \/ starts_with(k, path \o ".") \/ starts_with(k, path \o "[")}

\* hex::encode(Sha3_256::digest(text)) of the empty text
Sha3OfEmpty == "a7ffc6f8bf1ed76651c14756a061d662f580ff4de43b49fa82d80a4b80f8434a"

\* Regex::is_match of a literal pattern
is_match(pattern, content) ==
    \E i \in 1..(Len(content) - Len(pattern) + 1) :
        SubSeq(content, i, i + Len(pattern) - 1) = pattern

\* Regex::replace_all on one Value::Bytes: Scrub puts the replacement in
\* place of every match, Hash the digest of capture group 1 ("" when the
\* pattern has no such group)
replace_all(self, content) ==
    IF self.action.kind = "Scrub"
    THEN Replace(content, self.pattern, self.action.replacement)
    ELSE Replace(content, self.pattern, Sha3OfEmpty)

\* ScanningRule::scan_nested on the value whose leaves are `targets`: every
\* Value::Bytes under it is replaced by replace_all, objects and arrays are
\* descended, other values skipped; matched iff some replace_all was Owned
scan_nested(self, log, targets) ==
    LET hit(k) == log.fields[k].t = "Bytes" /\ is_match(self.pattern, log.fields[k].v)
    IN  [fields |-> [k \in DOMAIN log.fields |->
                        IF k \in targets /\ log.fields[k].t = "Bytes"
                        THEN Bytes(replace_all(self, log.fields[k].v))
                        ELSE log.fields[k]],
         matched |-> \E k \in targets : hit(k)]

\* ScanningRule::insert_tags: event.insert(key, value) for every tag
insert_tags(self, fields) ==
    LET replaced == UNION {get_mut([fields |-> fields], t) : t \in DOMAIN self.tags}
        kept == DOMAIN fields \ replaced
    IN  [k \in kept \cup DOMAIN self.tags |->
            IF k \in DOMAIN self.tags THEN Bytes(self.tags[k]) ELSE fields[k]]

\* the orders in which a set can be listed
Orders(S) == {q \in [1..Cardinality(S) -> S] : Range(q) = S}

(* The events and rules scanned *)

Events ==
    { [kind |-> "Log",
       fields |-> ("namespace.nada" :> Bytes("hello"))
                    @@ ("namespace.match.here" :> Bytes("hello world"))
                    @@ ("number" :> Other("Float"))
                    @@ ("message" :> Bytes("hello"))],
      [kind |-> "Log",
       fields |-> ("message" :> Bytes("hello"))
                    @@ ("message_id" :> Bytes("hello there"))
                    @@ ("namespace.nada" :> Bytes("goodbye"))],
      [kind |-> "Log",
       fields |-> ("list[0]" :> Bytes("hello"))
                    @@ ("list[1]" :> Bytes("bye"))
                    @@ ("namespaces" :> Bytes("oh hello"))],
      [kind |-> "Metric", fields |-> <<>>] }

Attributes ==
    { <<>>, <<"namespace">>, <<"non-existent">>, <<"message">>,
      <<"namespace.match">>, <<"list", "message">> }

ScanningRules ==
    [pattern : {"hello"},
     coverage : [kind : {"Include", "Exclude"}, attributes : Attributes],
     tags : {<<>>, "test" :> "tag"},
     action : {[kind |-> "Scrub", replacement |-> "REDACTED"], [kind |-> "Hash"]}]

(* ScanningRule::scan, step by step *)

InitScan ==
    /\ event \in Events
    /\ scanning_rule \in ScanningRules
    /\ lookups = <<>>
    /\ inserted_tags = FALSE
    /\ pc = "enter"
    /\ event0 = event
    /\ patterns = <<>>
    /\ aliases = <<>>
    /\ PATTERNS = Builtins
    /\ idx = 0
    /\ rules = <<>>
    /\ status = "off"
    /\ attempt = "pattern"
    /\ ctx = [regex |-> "", fields |-> <<>>, aliases |-> aliases,
              alias_stack |-> <<>>, grok |-> PATTERNS]
    /\ frames = <<>>
    /\ reg = <<>>
    /\ outcomes = <<>>

\* match event { _ => unimplemented!() }: only log events are scanned
ScanUnimplemented ==
    /\ pc = "enter"
    /\ event.kind # "Log"
    /\ pc' = "panic"
    /\ UNCHANGED <<grok_vars, event, scanning_rule, lookups, inserted_tags, event0>>

\* ScanningCoverage::Include: the attributes are visited in their order
ScanInclude ==
    /\ pc = "enter"
    /\ event.kind = "Log"
    /\ scanning_rule.coverage.kind = "Include"
    /\ lookups' = scanning_rule.coverage.attributes
    /\ inserted_tags' = FALSE
    /\ pc' = "loop"
    /\ UNCHANGED <<grok_vars, event, scanning_rule, event0>>

\* ScanningCoverage::Exclude: the keys of the event that start with no
\* excluded attribute are collected, in the order the event lists them
ScanExclude ==
    /\ pc = "enter"
    /\ event.kind = "Log"
    /\ scanning_rule.coverage.kind = "Exclude"
    /\ \E order \in Orders({k \in keys(event) :
                              ~ \E i \in DOMAIN scanning_rule.coverage.attributes :
                                    starts_with(k, scanning_rule.coverage.attributes[i])}) :
           lookups' = order
    /\ inserted_tags' = FALSE
    /\ pc' = "loop"
    /\ UNCHANGED <<grok_vars, event, scanning_rule, event0>>

\* one iteration of either loop: if let Some(value) = log.get_mut(lookup),
\* scan_nested(value), and the tags are inserted at the first match
ScanLookup ==
    /\ pc = "loop"
    /\ lookups # <<>>
    /\ LET targets == get_mut(event, Head(lookups))
           r == scan_nested(scanning_rule, event, targets)
           first == targets # {} /\ ~inserted_tags /\ r.matched
       IN  /\ event' = IF targets = {} THEN event
                       ELSE [event EXCEPT !.fields =
                                IF first THEN insert_tags(scanning_rule, r.fields)
                                ELSE r.fields]
           /\ inserted_tags' = (inserted_tags \/ first)
    /\ lookups' = Tail(lookups)
    /\ UNCHANGED <<grok_vars, scanning_rule, pc, event0>>

\* the loop is over and ScanningRule::scan returns
ScanReturn ==
    /\ pc = "loop"
    /\ lookups = <<>>
    /\ pc' = "done"
    /\ UNCHANGED <<grok_vars, event, scanning_rule, lookups, inserted_tags, event0>>

NextScan ==
    ScanUnimplemented \/ ScanInclude \/ ScanExclude \/ ScanLookup \/ ScanReturn

SpecScan == InitScan /\ [][NextScan]_vars

-----------------------------------------------------------------------------
(* What the property of the scanner speaks of *)

\* a rule with Exclude coverage has scanned a log event
ExcludeScanDone ==
    pc = "done" /\ event0.kind = "Log" /\ scanning_rule.coverage.kind = "Exclude"

\* the key is an excluded attribute or is nested under one
AtOrUnder(k, attributes) ==
    \E i \in DOMAIN attributes : k \in get_mut([fields |-> (k :> 0)], attributes[i])

\* the value the key had matches the pattern of the rule
MatchedBefore(k) ==
    event0.fields[k].t = "Bytes" /\ is_match(scanning_rule.pattern, event0.fields[k].v)

\* the keys whose values the claim says are rewritten
ToRewrite ==
    {k \in DOMAIN event0.fields :
        MatchedBefore(k) /\ ~AtOrUnder(k, scanning_rule.coverage.attributes)}

\* C22: when a rule with Exclude coverage has scanned a log event, a string
\* value is rewritten by the action of the rule if and only if it matched
\* the pattern and its key is neither an excluded attribute nor nested under
\* one (a key that only begins with the text of an excluded attribute is
\* rewritten like any other), every other value is as it was, and the tags
\* of the rule are on the event exactly when some value was rewritten.
C22_ExcludeRewritesOutsideAttributes ==
    ExcludeScanDone =>
        /\ \A k \in DOMAIN event0.fields :
              /\ k \in DOMAIN event.fields
              /\ event.fields[k] =
                    IF k \in ToRewrite
                    THEN Bytes(replace_all(scanning_rule, event0.fields[k].v))
                    ELSE event0.fields[k]
              /\ k \in ToRewrite => event.fields[k] # event0.fields[k]
        /\ IF ToRewrite # {}
           THEN \A t \in DOMAIN scanning_rule.tags :
                    /\ t \in DOMAIN event.fields
                    /\ event.fields[t] = Bytes(scanning_rule.tags[t])
           ELSE DOMAIN event.fields = DOMAIN event0.fields
====
